---- MODULE Spec2Model ----
(***************************************************************************)
(* images.py, the sample image generator, as a state machine: the letter   *)
(* sampler, the palette expansion and the colour sampler, the metadata     *)
(* serialization, and the loop that persists each image and its metadata.  *)
(*                                                                         *)
(* Strings are sequences of one-character strings, so that the "#" prefix, *)
(* the hex alphabet and the file names can be told apart.                  *)
(* Weights are integers (the source's floats in a fixed unit) and the      *)
(* arithmetic is exact; a draw of random.random() * total is a whole       *)
(* number of units in [0, total).                                          *)
(***************************************************************************)
EXTENDS Integers, Sequences, FiniteSets, TLC

VARIABLES
    table, rand, letter_ret, sampler_pc,      \* a get_random_letter call
    weights, pallete, color_ret, color_pc,    \* a palette and a get_random_hex_color call
    i, pc, img, meta, disk, failed_at,        \* a generate_images run
    disk0, drawn                              \* history: the directory at start, the draws per item

sampler_vars == <<table, rand, letter_ret, sampler_pc>>
color_vars   == <<weights, pallete, color_ret, color_pc>>
batch_vars   == <<i, pc, img, meta, disk, failed_at, disk0, drawn>>
vars         == <<sampler_vars, color_vars, batch_vars>>

----------------------------------------------------------------------------
(* Bounds *)

\* items of a run (TOTAL_IMAGES is 1000 in the source)
TOTAL_IMAGES == 2
\* entries of each colour table and of the letter table that a run uses
NumColors == 2
NumLetters == 2
\* the weight tables handed to the samplers: at most MaxTableLen entries,
\* weights up to MaxWeight
MaxTableLen == 3
MaxWeight == 3
\* positions of the fallback colour whose draw differs from the others
MaxVaried == 1

----------------------------------------------------------------------------
(* Python values *)

\* None, as a value no string equals
None == <<"None">>

\* str(n) for n >= 0: the decimal digits, most significant first, no padding
Digit(d) == <<SubSeq(<<"0", "1", "2", "3", "4", "5", "6", "7", "8", "9">>, d + 1, d + 1)[1]>>

RECURSIVE Str(_)
Str(n) == IF n < 10 THEN Digit(n) ELSE Str(n \div 10) \o Digit(n % 10)

\* sum(xs) of a sequence of numbers
RECURSIVE SumSeq(_)
SumSeq(xs) == IF xs = <<>> THEN 0 ELSE xs[1] + SumSeq(Tail(xs))

\* d.values() of a dict kept as the sequence of its items, in insertion order
Values(d) == [j \in 1..Len(d) |-> d[j][2]]

\* the dicts over the keys `pool` with at most n items and values in `vals`,
\* in every insertion order (the keys of a dict are distinct)
RECURSIVE Dicts(_, _, _)
Dicts(pool, vals, n) ==
    IF n = 0 THEN {<<>>}
    ELSE LET shorter == Dicts(pool, vals, n - 1)
             fresh(d) == {k \in pool : \A j \in 1..Len(d) : d[j][1] # k}
         IN  shorter \cup
             UNION { {Append(d, <<k, v>>) : k \in fresh(d), v \in vals} :
                       d \in {s \in shorter : Len(s) = n - 1} }

----------------------------------------------------------------------------
(* get_random_letter *)

\* LETTERS: the first entries of the source's table, in its order, each weight
\* in units of 0.02 (0.0846 is 4, 0.0264 is 1); a run uses the first NumLetters
LETTERS_HEAD ==
    << <<<<"a">>, 4>>, <<<<"h">>, 1>>, <<<<"e">>, 5>>, <<<<"d">>, 2>>,
       <<<<"i">>, 4>>, <<<<"n">>, 4>> >>

LETTERS == SubSeq(LETTERS_HEAD, 1, NumLetters)

\* random.random() * total: random() is in [0, 1), so the product is in
\* [0, total) for a positive total, 0 for total 0, and in (total, 0] below 0
RandomTimes(total) ==
    IF total > 0 THEN 0..(total - 1)
    ELSE IF total = 0 THEN {0}
    ELSE (total + 1)..0

\* the test with `<=` for `<`
IsNegative_OrZero(x) == x <= 0

\* `if rand < 0`
IsNegative(x) == x < 0

\* the loop `for k, v in items: rand -= v; if rand < 0: return k` from entry j
\* on, with rem the value of rand; falling off the end returns None
RECURSIVE Scan(_, _, _)
Scan(items, j, rem) ==
    IF j > Len(items) THEN None
    ELSE LET left == rem - items[j][2]
         IN  IF IsNegative(left) THEN items[j][1] ELSE Scan(items, j + 1, left)

\* get_random_letter() on the table `items`, for the draw rnd of
\* random.random() * sum(values)
GetRandomLetter(items, rnd) == Scan(items, 1, rnd)

\* the tables a call is made on
LetterPool == {<<"a">>, <<"h">>, <<"e">>}

Tables == Dicts(LetterPool, (0 - 1)..MaxWeight, MaxTableLen)

SamplerIdle ==
    /\ table = <<>>
    /\ rand = 0
    /\ letter_ret = None
    /\ sampler_pc = "idle"

SamplerInit ==
    /\ table \in Tables
    /\ rand = 0
    /\ letter_ret = None
    /\ sampler_pc = "ready"

\* one call of get_random_letter on `table`
CallGetRandomLetter ==
    /\ sampler_pc = "ready"
    /\ \E rnd \in RandomTimes(SumSeq(Values(table))) :
          /\ rand' = rnd
          /\ letter_ret' = GetRandomLetter(table, rnd)
    /\ sampler_pc' = "returned"
    /\ UNCHANGED <<table, color_vars, batch_vars>>

----------------------------------------------------------------------------
(* The palettes and get_random_hex_color *)

_DARKS ==
    << <<<<"1", "7", "1", "2", "1", "2">>, 5>>,
       <<<<"0", "0", "2", "5", "0", "0">>, 4>>,
       <<<<"0", "8", "3", "b", "4", "9">>, 3>>,
       <<<<"3", "d", "2", "b", "0", "0">>, 2>>,
       <<<<"3", "c", "0", "1", "1", "d">>, 1>> >>

_LIGHTS ==
    << <<<<"f", "5", "8", "e", "b", "9">>, 5>>,
       <<<<"e", "1", "9", "4", "5", "1">>, 4>>,
       <<<<"f", "8", "f", "4", "a", "6">>, 3>>,
       <<<<"b", "d", "f", "7", "b", "7">>, 2>>,
       <<<<"b", "1", "b", "5", "e", "7">>, 1>> >>

\* [k] * v, one copy short
Repeat_OneShort(k, v) == [j \in 1..(v - 1) |-> k]

\* [k] * v: v copies of k, none for v <= 0
Repeat(k, v) == [j \in 1..v |-> k]

\* [x for k, v in d.items() for x in [k] * v]
RECURSIVE Expand(_)
Expand(d) == IF d = <<>> THEN <<>> ELSE Repeat(d[1][1], d[1][2]) \o Expand(Tail(d))

\* the argument `pallete`: None, or a list
NoPallete == [is_none |-> TRUE, list |-> <<>>]
Pallete(list) == [is_none |-> FALSE, list |-> list]

\* the test inverted: `if pallete`
Not_Inverted(p) == ~(p.is_none \/ p.list = <<>>)

\* `not pallete`: None and the empty list are both falsy
Not(p) == p.is_none \/ p.list = <<>>

\* the characters of the string "abcdef01234567"
HEXCHARS == <<"a", "b", "c", "d", "e", "f", "0", "1", "2", "3", "4", "5", "6", "7">>

\* range(6)
HexLen == 6

\* random.choice(seq), for the index ix (from 0) that it draws
Choice(seq, ix) == seq[ix + 1]

\* the indices random.choice(seq) can draw
ChoiceDraws(seq) == 0..(Len(seq) - 1)

\* "".join(random.choice("abcdef01234567") for _ in range(6)), for the indices ixs drawn
JoinChoices(ixs) == [j \in 1..HexLen |-> Choice(HEXCHARS, ixs[j])]

\* get_random_hex_color(pallete), for the draws it makes: ix in a palette,
\* ixs in the fallback
GetRandomHexColor(p, ix, ixs) ==
    IF Not(p) THEN <<"#">> \o JoinChoices(ixs)
    ELSE <<"#">> \o Choice(p.list, ix)

\* the draws of the fallback's six choices: every position draws `base`, but for
\* at most MaxVaried positions, which draw `other`
HexDraws ==
    { [j \in 1..HexLen |-> IF j \in at THEN other ELSE base] :
        base \in ChoiceDraws(HEXCHARS), other \in ChoiceDraws(HEXCHARS),
        at \in {a \in SUBSET (1..HexLen) : Cardinality(a) <= MaxVaried} }

\* the colour tables a palette is built from
ColorPool == {_DARKS[1][1], _DARKS[2][1], _LIGHTS[1][1]}

Palettes == Dicts(ColorPool, 0..MaxWeight, MaxTableLen) \cup {_DARKS, _LIGHTS}

ColorIdle ==
    /\ weights = <<>>
    /\ pallete = NoPallete
    /\ color_ret = None
    /\ color_pc = "idle"

ColorInit ==
    /\ weights \in Palettes
    /\ pallete = NoPallete
    /\ color_ret = None
    /\ color_pc = "ready"

\* DARKS = [x for k, v in _DARKS.items() for x in [k] * v], for the table `weights`
ExpandPalette ==
    /\ color_pc = "ready"
    /\ pallete.is_none
    /\ pallete' = Pallete(Expand(weights))
    /\ UNCHANGED <<weights, color_ret, color_pc, sampler_vars, batch_vars>>

\* one call of get_random_hex_color: with the expanded palette, or with no
\* palette where there is no table
CallGetRandomHexColor ==
    /\ color_pc = "ready"
    /\ pallete.is_none => weights = <<>>
    /\ IF Not(pallete)
       THEN \E ixs \in HexDraws : color_ret' = GetRandomHexColor(pallete, 0, ixs)
       ELSE \E ix \in ChoiceDraws(pallete.list) :
               color_ret' = GetRandomHexColor(pallete, ix, <<>>)
    /\ color_pc' = "returned"
    /\ UNCHANGED <<weights, pallete, sampler_vars, batch_vars>>

----------------------------------------------------------------------------
(* MetaData and its serialization *)

\* MetaData(bg_color, letter, letter_color).__dict__: the attributes in the
\* order __init__ sets them
MetaData(bg_color, letter, letter_color) ==
    << <<<<"b", "g", "_", "c", "o", "l", "o", "r">>, bg_color>>,
       <<<<"l", "e", "t", "t", "e", "r">>, letter>>,
       <<<<"l", "e", "t", "t", "e", "r", "_", "c", "o", "l", "o", "r">>, letter_color>> >>

\* as_os_metadata: [{"trait_type": k, "value": v} for k, v in __dict__.items() if k[0] != "_"]
AsOsMetadata(m) ==
    LET public == SelectSeq(m, LAMBDA kv : kv[1][1] # "_")
    IN  [j \in 1..Len(public) |->
            << <<<<"t", "r", "a", "i", "t", "_", "t", "y", "p", "e">>, public[j][1]>>, <<<<"v", "a", "l", "u", "e">>, public[j][2]>> >>]

\* sep.join(parts)
RECURSIVE Join(_, _)
Join(sep, parts) ==
    IF parts = <<>> THEN <<>>
    ELSE IF Len(parts) = 1 THEN parts[1]
    ELSE parts[1] \o sep \o Join(sep, Tail(parts))

\* json.dumps of a string without a character that needs an escape
JsonString(str) == <<"\"">> \o str \o <<"\"">>

\* json.dumps of a dict of strings, with the default separators ", " and ": "
JsonDict(d) ==
    <<"{">> \o
    Join(<<",", " ">>,
         [j \in 1..Len(d) |-> JsonString(d[j][1]) \o <<":", " ">> \o JsonString(d[j][2])]) \o
    <<"}">>

\* json.dumps of a list of dicts of strings
JsonDumps(list) ==
    <<"[">> \o Join(<<",", " ">>, [j \in 1..Len(list) |-> JsonDict(list[j])]) \o <<"]">>

\* json.loads of such a text: a parser of the text, not the inverse of JsonDumps.
\* ReadString reads the string that opens at t[p]; ReadItems the items of an
\* object from t[p] on; ReadDicts the objects of a list from t[p] on.
ReadString(t, p) ==
    LET close == CHOOSE q \in (p + 1)..Len(t) :
                     /\ t[q] = "\""
                     /\ \A r \in (p + 1)..(q - 1) : t[r] # "\""
    IN  [val |-> SubSeq(t, p + 1, close - 1), next |-> close + 1]

RECURSIVE ReadItems(_, _, _)
ReadItems(t, p, acc) ==
    LET k == ReadString(t, p)
        v == ReadString(t, k.next + 2)
        got == Append(acc, <<k.val, v.val>>)
    IN  IF t[v.next] = "}" THEN [val |-> got, next |-> v.next + 1]
        ELSE ReadItems(t, v.next + 2, got)

RECURSIVE ReadDicts(_, _, _)
ReadDicts(t, p, acc) ==
    IF t[p] = "]" THEN acc
    ELSE LET d == IF t[p + 1] = "}" THEN [val |-> <<>>, next |-> p + 2]
                  ELSE ReadItems(t, p + 1, <<>>)
             got == Append(acc, d.val)
         IN  IF t[d.next] = "]" THEN got ELSE ReadDicts(t, d.next + 2, got)

JsonLoads(t) == ReadDicts(t, 2, <<>>)

----------------------------------------------------------------------------
(* gen_image, save_output and generate_images *)

EXT == <<".", "j", "p", "g">>

\* the palettes of a run: the first NumColors entries of each table, expanded
DARKS == Expand(SubSeq(_DARKS, 1, NumColors))
LIGHTS == Expand(SubSeq(_LIGHTS, 1, NumColors))

\* the raster that create_bg and draw.text make: what it shows
Render(bg_color, letter, letter_color) == <<bg_color, letter, letter_color>>

\* gen_image(), for its three draws: the image and the MetaData
GenImageOf(ixb, ixl, rnd) ==
    LET bg_color == GetRandomHexColor(Pallete(DARKS), ixb, <<>>)
        letter_color == GetRandomHexColor(Pallete(LIGHTS), ixl, <<>>)
        letter == GetRandomLetter(LETTERS, rnd)
    IN  [img |-> Render(bg_color, letter, letter_color),
         meta |-> MetaData(bg_color, letter, letter_color)]

\* f"{image_name}{EXT}" and f"{image_name}-meta.json" in OUTPUT_DIR
ImagePath(image_name) == image_name \o EXT
MetaPath(image_name) == image_name \o <<"-", "m", "e", "t", "a", ".", "j", "s", "o", "n">>

\* str(i) of a one-based count
ImageName_OneBased(k) == Str(k + 1)

\* the image_name of item k: str(i)
ImageName(k) == Str(k)

\* range(n), one too many
Range_OneMore(n) == 0..n

\* range(n)
Range(n) == 0..(n - 1)

\* an exception caught per item, the loop going on with the next one
AfterException_Continue(k) == [pc |-> "loop", i |-> k + 1]

\* an exception raised in item k: nothing in generate_images catches it
AfterException(k) == [pc |-> "failed", i |-> k]

\* the directory as a function from paths to contents; a file written
EmptyDir == [n \in {} |-> <<>>]
Write(dir, path, content) ==
    [n \in DOMAIN dir \cup {path} |-> IF n = path THEN content ELSE dir[n]]

\* a file that was opened for writing and holds nothing
Truncated == <<>>

\* a directory that an earlier, longer run left
StaleDir ==
    Write(Write(EmptyDir, ImagePath(Str(TOTAL_IMAGES)), Truncated),
          MetaPath(Str(TOTAL_IMAGES)), JsonDumps(<<>>))

NoFailure == 0 - 1

BatchIdle ==
    /\ i = 0
    /\ pc = "idle"
    /\ img = <<>>
    /\ meta = <<>>
    /\ disk = EmptyDir
    /\ disk0 = EmptyDir
    /\ failed_at = NoFailure
    /\ drawn = <<>>

BatchInit ==
    /\ i = 0
    /\ pc = "loop"
    /\ img = <<>>
    /\ meta = <<>>
    /\ disk \in {EmptyDir, StaleDir}
    /\ disk0 = disk
    /\ failed_at = NoFailure
    /\ drawn = <<>>

\* the exception leaves item i
Raise ==
    /\ pc' = AfterException(i).pc
    /\ i' = AfterException(i).i
    /\ failed_at' = IF failed_at = NoFailure THEN i ELSE failed_at

\* img, meta = gen_image()
GenImage ==
    /\ pc = "loop"
    /\ i \in Range(TOTAL_IMAGES)
    /\ \E ixb \in ChoiceDraws(DARKS), ixl \in ChoiceDraws(LIGHTS),
          rnd \in RandomTimes(SumSeq(Values(LETTERS))) :
          /\ img' = GenImageOf(ixb, ixl, rnd).img
          /\ meta' = GenImageOf(ixb, ixl, rnd).meta
          /\ drawn' = Append(drawn, [bg |-> Choice(DARKS, ixb),
                                     letter |-> GetRandomLetter(LETTERS, rnd),
                                     fg |-> Choice(LIGHTS, ixl)])
    /\ pc' = "save_image"
    /\ UNCHANGED <<i, disk, disk0, failed_at, sampler_vars, color_vars>>

\* gen_image() raises (the font cannot be read, the text cannot be drawn)
GenImageFails ==
    /\ pc = "loop"
    /\ i \in Range(TOTAL_IMAGES)
    /\ Raise
    /\ UNCHANGED <<img, meta, disk, disk0, drawn, sampler_vars, color_vars>>

\* image.save(...) of save_output
SaveImage ==
    /\ pc = "save_image"
    /\ disk' = Write(disk, ImagePath(ImageName(i)), img)
    /\ pc' = "save_meta"
    /\ UNCHANGED <<i, img, meta, disk0, failed_at, drawn, sampler_vars, color_vars>>

\* image.save(...) raises: before it opened the file, or with the file opened
SaveImageFails ==
    /\ pc = "save_image"
    /\ \/ disk' = disk
       \/ disk' = Write(disk, ImagePath(ImageName(i)), Truncated)
    /\ Raise
    /\ UNCHANGED <<img, meta, disk0, drawn, sampler_vars, color_vars>>

\* open(..., 'w') and file.write(json.dumps(meta.as_os_metadata())); the loop's next i
SaveMeta ==
    /\ pc = "save_meta"
    /\ disk' = Write(disk, MetaPath(ImageName(i)), JsonDumps(AsOsMetadata(meta)))
    /\ i' = i + 1
    /\ pc' = "loop"
    /\ UNCHANGED <<img, meta, disk0, failed_at, drawn, sampler_vars, color_vars>>

\* open(..., 'w') raises, or the write raises with the file opened
SaveMetaFails ==
    /\ pc = "save_meta"
    /\ \/ disk' = disk
       \/ disk' = Write(disk, MetaPath(ImageName(i)), Truncated)
    /\ Raise
    /\ UNCHANGED <<img, meta, disk0, drawn, sampler_vars, color_vars>>

\* range(TOTAL_IMAGES) is exhausted: generate_images returns
LoopExit ==
    /\ pc = "loop"
    /\ i \notin Range(TOTAL_IMAGES)
    /\ pc' = "done"
    /\ UNCHANGED <<i, img, meta, disk, disk0, failed_at, drawn, sampler_vars, color_vars>>

----------------------------------------------------------------------------
(* Specifications *)

\* calls of get_random_letter on the tables of Tables
SamplerStart == SamplerInit /\ ColorIdle /\ BatchIdle
SamplerNext == CallGetRandomLetter
SamplerSpec == SamplerStart /\ [][SamplerNext]_vars

\* palettes built from the tables of Palettes and calls of get_random_hex_color
ColorStart == SamplerIdle /\ ColorInit /\ BatchIdle
ColorNext == ExpandPalette \/ CallGetRandomHexColor
ColorSpec == ColorStart /\ [][ColorNext]_vars

\* a run of generate_images
BatchStart == SamplerIdle /\ ColorIdle /\ BatchInit
BatchNext ==
    \/ GenImage
    \/ GenImageFails
    \/ SaveImage
    \/ SaveImageFails
    \/ SaveMeta
    \/ SaveMetaFails
    \/ LoopExit
BatchSpec == BatchStart /\ [][BatchNext]_vars

\* any of the three
Init == SamplerStart \/ ColorStart \/ BatchStart
Next == SamplerNext \/ ColorNext \/ BatchNext
Spec == Init /\ [][Next]_vars

----------------------------------------------------------------------------
(* Properties *)

\* the unpadded decimal numeral of an index below 100, written out
Numeral(k) ==
    LET digits == <<"0", "1", "2", "3", "4", "5", "6", "7", "8", "9">>
    IN  IF k < 10 THEN <<digits[k + 1]>>
        ELSE <<digits[(k \div 10) + 1], digits[(k % 10) + 1]>>

ImageFileOf(k) == Numeral(k) \o <<".", "j", "p", "g">>
MetaFileOf(k) == Numeral(k) \o <<"-", "m", "e", "t", "a", ".", "j", "s", "o", "n">>

HasImage(k) == ImageFileOf(k) \in DOMAIN disk
HasMeta(k) == MetaFileOf(k) \in DOMAIN disk

\* the indices a file of the directory can have
Indices == 0..(TOTAL_IMAGES + 1)

StartedEmpty == DOMAIN disk0 = {}

\* C1: a run that starts from an empty directory and completes without a
\* failure leaves exactly the files 0.jpg .. (N-1).jpg and 0-meta.json ..
\* (N-1)-meta.json: N images, N metadata files, one of each per index in
\* 0..N-1, and no other file.
C1_ExactlyNFiles ==
    (pc = "done" /\ StartedEmpty /\ failed_at = NoFailure) =>
        LET images == {ImageFileOf(k) : k \in 0..(TOTAL_IMAGES - 1)}
            metas == {MetaFileOf(k) : k \in 0..(TOTAL_IMAGES - 1)}
        IN  /\ DOMAIN disk = images \cup metas
            /\ Cardinality(DOMAIN disk \cap images) = TOTAL_IMAGES
            /\ Cardinality(DOMAIN disk \cap metas) = TOTAL_IMAGES
            /\ \A n \in DOMAIN disk : disk[n] # Truncated

C1_Witness ==
    /\ pc = "done"
    /\ StartedEmpty
    /\ failed_at = NoFailure
    /\ Len(drawn) = TOTAL_IMAGES
    /\ HasImage(TOTAL_IMAGES - 1)

\* the weights before entry j of a table, summed
WeightBefore(t, j) == SumSeq([x \in 1..(j - 1) |-> t[x][2]])

PositiveTable(t) == t # <<>> /\ \A j \in 1..Len(t) : t[j][2] > 0

C3_MetadataHoldsPaletteCodes ==
    \A k \in 0..(Len(drawn) - 1) :
        (k < i /\ HasMeta(k) /\ disk[MetaFileOf(k)] # Truncated) =>
            JsonLoads(disk[MetaFileOf(k)]) =
                << << <<<<"t", "r", "a", "i", "t", "_", "t", "y", "p", "e">>, <<"b", "g", "_", "c", "o", "l", "o", "r">>>>, <<<<"v", "a", "l", "u", "e">>, drawn[k + 1].bg>> >>,
                   << <<<<"t", "r", "a", "i", "t", "_", "t", "y", "p", "e">>, <<"l", "e", "t", "t", "e", "r">>>>, <<<<"v", "a", "l", "u", "e">>, drawn[k + 1].letter>> >>,
                   << <<<<"t", "r", "a", "i", "t", "_", "t", "y", "p", "e">>, <<"l", "e", "t", "t", "e", "r", "_", "c", "o", "l", "o", "r">>>>, <<<<"v", "a", "l", "u", "e">>, drawn[k + 1].fg>> >> >>

\* C4 (as claimed): a call on a non-empty table returns a key of the table,
\* and the last key when the draw is not used up by all the weights.
C4_AlwaysAKey ==
    (sampler_pc = "returned" /\ table # <<>>) =>
        /\ \E j \in 1..Len(table) : letter_ret = table[j][1]
        /\ rand - WeightBefore(table, Len(table) + 1) >= 0 =>
              letter_ret = table[Len(table)][1]

\* C5 (as claimed): a call on an empty table, or on one with a weight <= 0,
\* ends in InvalidArgument and returns nothing.
C5_InvalidArgument ==
    (sampler_pc # "ready" /\ ~PositiveTable(table)) => sampler_pc = "InvalidArgument"

\* C6: for a table of weights >= 1 the expanded sequence is as long as the
\* weights' sum, holds each colour weight(colour) times, and of the indices
\* random.choice can draw exactly weight(colour) select the colour.
C6_ExpansionCounts ==
    (~pallete.is_none /\ \A j \in 1..Len(weights) : weights[j][2] >= 1) =>
        /\ Len(pallete.list) = WeightBefore(weights, Len(weights) + 1)
        /\ \A j \in 1..Len(weights) :
              /\ Cardinality({x \in 1..Len(pallete.list) : pallete.list[x] = weights[j][1]})
                    = weights[j][2]
              /\ Cardinality({ix \in ChoiceDraws(pallete.list) :
                                 Choice(pallete.list, ix) = weights[j][1]}) = weights[j][2]

C6_Witness ==
    /\ ~pallete.is_none
    /\ Len(weights) = 2
    /\ weights[1][2] = 2
    /\ weights[2][2] = 1
    /\ Len(pallete.list) = 3

HexAlphabet ==
    {"0", "1", "2", "3", "4", "5", "6", "7", "8", "9", "a", "b", "c", "d", "e", "f"}

\* C8 (as claimed): with no palette the call returns six characters, each of
\* the sixteen lowercase hex digits and no other, and each of the sixteen is
\* among the characters a position can draw.
C8_FallbackIsSixHexDigits ==
    (color_pc = "returned" /\ pallete.is_none) =>
        /\ Len(color_ret) = 6
        /\ \A x \in 1..Len(color_ret) : color_ret[x] \in HexAlphabet
        /\ {Choice(HEXCHARS, ix) : ix \in ChoiceDraws(HEXCHARS)} = HexAlphabet

\* C9: once an item has failed, nothing more is composed or persisted and the
\* directory stays as it is; and the failing step leaves alone every file but
\* the one it was writing.
C9_FailureHalts ==
    [][ /\ failed_at # NoFailure =>
              /\ disk' = disk
              /\ drawn' = drawn
              /\ img' = img
              /\ i' = i
        /\ (failed_at = NoFailure /\ failed_at' # NoFailure) =>
              /\ i' = i
              /\ drawn' = drawn
              /\ \A n \in DOMAIN disk :
                    (n # ImageFileOf(i) /\ n # MetaFileOf(i)) =>
                        (n \in DOMAIN disk' /\ disk'[n] = disk[n])
              /\ \A n \in DOMAIN disk' \ DOMAIN disk :
                    n = ImageFileOf(i) \/ n = MetaFileOf(i)
      ]_vars

C9_Witness ==
    /\ failed_at >= 1
    /\ StartedEmpty
    /\ HasImage(0)
    /\ HasMeta(0)
    /\ ~HasImage(failed_at)

\* C10: in a run that starts from an empty directory the files are a prefix:
\* a metadata file has its image, a file of index k has both files of every
\* smaller index before it, and at most one index has an image and no metadata.
C10_FilesFormAPrefix ==
    StartedEmpty =>
        /\ \A k \in Indices :
              /\ HasMeta(k) => HasImage(k)
              /\ (HasImage(k) \/ HasMeta(k)) =>
                    \A j \in 0..(k - 1) : HasImage(j) /\ HasMeta(j)
        /\ Cardinality({k \in Indices : HasImage(k) /\ ~HasMeta(k)}) <= 1
        /\ \A n \in DOMAIN disk : \E k \in Indices : n = ImageFileOf(k) \/ n = MetaFileOf(k)

C10_Witness ==
    /\ StartedEmpty
    /\ failed_at >= 1
    /\ HasImage(failed_at)
    /\ ~HasMeta(failed_at)
    /\ HasMeta(failed_at - 1)

====
